---- MODULE Spec2Model ----
(***************************************************************************)
(* Stream lifecycle of metastream: the Durable Store rows of the streams   *)
(* table, the Redis pid key (Control Channel), the Celery beat duties      *)
(* check_and_start_streams / check_live_streams, the start_stream_task     *)
(* supervisor with its resume loop, the stop_stream task and the           *)
(* dashboard's cancel_stream handler.                                      *)
(*                                                                         *)
(* Time is a clock of whole seconds; datetimes are instants on that clock  *)
(* (to_tehran changes the zone of a datetime, not its instant, and every   *)
(* comparison in the code is between instants).                            *)
(***************************************************************************)
EXTENDS Integers, Sequences, FiniteSets, TLC

\* ---------------------------------------------------------------- bounds
NumStreams == 1
NumTasks == 2
MaxQueue == 2
MaxClock == 12
MaxFine == 2
MaxAttempts == 2
MaxSoloClock == 50
MaxSoloAttempts == 7
MaxDuration == 2
MaxIdleClock == 3620
MaxCancelAttempts == 5
LongStep == 600
FlakyDuration == 5

\* ------------------------------------------------------ program constants
PromoteWindowSecs == 300
MaxFutureSecs == 86400
StartExpirySecs == 600
GraceSecs == 10
StaleSecs == 3600
max_retry_delay == 30
MaxBackoffExp == 4
check_interval == 2
TermWaitSecs == 5
CancelKillWaitSecs == 2
PidKeyTtlSecs == 86400
KillWaitSecs == 2

\* None in a nullable DateTime column
NULL == -1000000

Streams == 1..NumStreams
Tasks == 1..NumTasks

Min(a, b) == IF a <= b THEN a ELSE b
Max(a, b) == IF a >= b THEN a ELSE b

RECURSIVE Pow2(_)
Pow2(n) == IF n <= 0 THEN 1 ELSE 2 * Pow2(n - 1)

VARIABLES
    now,            \* wall clock, seconds
    cap,            \* [clock, fine, attempts, workers, record]: limits of the exploration
    beats,          \* parity of the number of beat task runs so far
    \* --- streams table
    status, start_time, duration, started_at, ended_at, error_message,
    \* --- Celery queue 'stream': pending start_stream_task messages
    queue,
    \* --- Redis stream:pid:{id}
    pid_key,
    \* --- start_stream_task runs
    pc, sid, seen, video_duration, offset_seconds, attempt, start_ts, wake, child,
    \* --- cancel_stream request
    cpc, csid, cpid, cwake,
    \* --- kill_stream_process task
    kpc, ksid, kpid, kwake, kresult,
    \* --- observers
    launches, launch_offsets, sleeps, exits, writer

storeVars == <<status, start_time, duration, started_at, ended_at, error_message>>
taskVars == <<pc, sid, seen, video_duration, offset_seconds, attempt, start_ts, wake, child>>
cancelVars == <<cpc, csid, cpid, cwake>>
killVars == <<kpc, ksid, kpid, kwake, kresult>>
obsVars == <<launches, launch_offsets, sleeps, exits, writer>>
vars == <<now, cap, beats, storeVars, queue, pid_key, taskVars, cancelVars, killVars, obsVars>>

Statuses == {"scheduled", "live", "ended", "cancelled"}
Setups == {"ok", "no_channel", "video_not_ready", "no_file"}

\* Start times around the clock's origin: on each threshold of the duties
\* and of the supervisor, due now, and still in the future.
StartTimes == {0 - StaleSecs, 0 - StartExpirySecs, 0 - PromoteWindowSecs, 0, 2}
Durations == {0, MaxDuration}
VideoDurations == {0, MaxDuration, MaxDuration + 1}

NoPid == <<0, 0>>

\* ------------------------------------------------------------------ Init
\* Rows as dashboard.create_stream leaves them (status scheduled, no
\* started_at/ended_at/error_message), seen at any age: a row whose
\* start time is long past is one that no beat or worker has touched.
InitRows ==
    /\ now = 0
    /\ beats = 0
    /\ status = [s \in Streams |-> "scheduled"]
    /\ start_time \in [Streams -> StartTimes]
    /\ duration \in [Streams -> Durations \cup {FlakyDuration}]
    /\ started_at = [s \in Streams |-> NULL]
    /\ ended_at = [s \in Streams |-> NULL]
    /\ error_message = [s \in Streams |-> FALSE]
    /\ pid_key = [s \in Streams |-> NoPid]
    /\ pc = [t \in Tasks |-> "idle"]
    /\ sid = [t \in Tasks |-> 0]
    /\ seen = [t \in Tasks |-> "none"]
    /\ video_duration = [t \in Tasks |-> 0]
    /\ offset_seconds = [t \in Tasks |-> 0]
    /\ attempt = [t \in Tasks |-> 0]
    /\ start_ts = [t \in Tasks |-> 0]
    /\ wake = [t \in Tasks |-> 0]
    /\ child = [t \in Tasks |-> "none"]
    /\ cpc = "idle"
    /\ csid = 0
    /\ cpid = NoPid
    /\ cwake = 0
    /\ kpc = "idle"
    /\ ksid = 0
    /\ kpid = NoPid
    /\ kwake = 0
    /\ kresult = "none"
    /\ launches = [t \in Tasks |-> 0]
    /\ launch_offsets = [t \in Tasks |-> << >>]
    /\ sleeps = [t \in Tasks |-> << >>]
    /\ exits = [t \in Tasks |-> << >>]
    /\ writer = [s \in Streams |-> "create_stream"]

\* No start request has been dispatched yet.
InitCommon ==
    /\ InitRows
    /\ \A s \in Streams : duration[s] \in Durations
    /\ queue = [s \in Streams |-> 0]

Init ==
    /\ InitCommon
    /\ cap = [clock |-> MaxClock, fine |-> MaxFine, attempts |-> MaxAttempts, workers |-> 1,
             record |-> FALSE]

\* ----------------------------------------------------------------- clock
\* wake[t] and cwake are the seconds a time.sleep still has to run.
\* The clock is sampled: it moves by one second for cap.fine seconds, and
\* by a whole grace period in which no process takes a step.
TickSteps == {1, GraceSecs}

Tick(d) ==
    /\ now + d <= cap.clock
    /\ d = 1 => (now % GraceSecs) < cap.fine
    /\ d > 0
    /\ now' = now + d
    /\ wake' = [t \in Tasks |-> Max(wake[t] - d, 0)]
    /\ cwake' = Max(cwake - d, 0)
    /\ kwake' = Max(kwake - d, 0)
    /\ UNCHANGED <<cap, beats, kpc, ksid, kpid, kresult, storeVars, queue, pid_key, pc, sid, seen,
                   video_duration,
                   offset_seconds, attempt, start_ts, child, cpc, csid, cpid, obsVars>>

\* A second in which a remux child runs.
RunSecond ==
    /\ \E t \in Tasks : child[t] = "running"
    /\ Tick(1)

\* Nothing happens until the time.sleep of task t is over.
SleepThrough(t) ==
    /\ wake[t] > 0
    /\ Tick(wake[t])

\* ------------------------------------------------- check_and_start_streams
\* The query's filter (stream.py 34-38) and the loop's test (stream.py 48).
InPromoteQuery_NoWindow(s) ==
    /\ status[s] = "scheduled"
    /\ start_time[s] <= now + MaxFutureSecs

InPromoteQuery(s) ==
    /\ status[s] = "scheduled"
    /\ start_time[s] <= now + MaxFutureSecs
    /\ start_time[s] >= now - PromoteWindowSecs

StartTimeArrived_Always(s) == TRUE

StartTimeArrived(s) == start_time[s] <= now

ShouldDispatch(s) == InPromoteQuery(s) /\ StartTimeArrived(s)

check_and_start_streams ==
    /\ \A s \in Streams : ShouldDispatch(s) => queue[s] < MaxQueue
    /\ queue' = [s \in Streams |-> IF ShouldDispatch(s) THEN queue[s] + 1 ELSE queue[s]]
    /\ beats' = 1 - beats
    /\ UNCHANGED <<now, cap, killVars, storeVars, pid_key, taskVars, cancelVars, obsVars>>

\* ------------------------------------------------------ check_live_streams
DurationExpired_NoGrace(s) ==
    /\ status[s] = "live"
    /\ started_at[s] # NULL
    /\ duration[s] # 0
    /\ now >= started_at[s] + duration[s]

\* stream.py 565-570: truthy started_at and duration, then the grace test.
DurationExpired(s) ==
    /\ status[s] = "live"
    /\ started_at[s] # NULL
    /\ duration[s] # 0
    /\ now >= started_at[s] + duration[s] + GraceSecs

StaleScheduled_Never(s) == FALSE

StaleScheduled_Inclusive(s) ==
    /\ status[s] = "scheduled"
    /\ start_time[s] <= now - StaleSecs

\* stream.py 577-581
StaleScheduled(s) ==
    /\ status[s] = "scheduled"
    /\ start_time[s] < now - StaleSecs

check_live_streams ==
    /\ status' = [s \in Streams |->
                    IF DurationExpired(s) THEN "ended"
                    ELSE IF StaleScheduled(s) THEN "cancelled"
                    ELSE status[s]]
    /\ ended_at' = [s \in Streams |-> IF DurationExpired(s) THEN now ELSE ended_at[s]]
    /\ writer' = [s \in Streams |->
                    IF DurationExpired(s) THEN "expire"
                    ELSE IF StaleScheduled(s) THEN "cancel_stale"
                    ELSE writer[s]]
    /\ beats' = 1 - beats
    /\ UNCHANGED <<now, cap, killVars, start_time, duration, started_at, error_message,
                   queue, pid_key, taskVars, cancelVars,
                   launches, launch_offsets, sleeps, exits>>

\* -------------------------------------------------------------- stop_stream
stop_stream(s) ==
    /\ status[s] = "live"
    /\ status' = [status EXCEPT ![s] = "ended"]
    /\ ended_at' = [ended_at EXCEPT ![s] = now]
    /\ writer' = [writer EXCEPT ![s] = "stop_stream"]
    /\ UNCHANGED <<now, cap, killVars, beats, start_time, duration, started_at, error_message,
                   queue, pid_key, taskVars, cancelVars,
                   launches, launch_offsets, sleeps, exits>>

\* ------------------------------------------------------- start_stream_task
\* SQLAlchemy flushes a column only when the value set differs from the one
\* the session loaded; after a commit the row is expired and any set is
\* flushed.  seen[t] is the status the task's session holds.
FlushStatus(t, s, v) ==
    IF seen[t] = v THEN status ELSE [status EXCEPT ![s] = v]

FlushWriter(t, s, v, who) ==
    IF seen[t] = v THEN writer ELSE [writer EXCEPT ![s] = who]

\* the observers sleeps, exits and launch_offsets are kept on request
Rec(seq, x) == IF cap.record THEN Append(seq, x) ELSE seq

Claimable_Always(s) == TRUE

\* stream.py 117
Claimable(s) == status[s] = "scheduled"

\* stream.py 111-119: a worker takes a message, loads the row, and skips
\* unless the row is scheduled.  Workers are interchangeable: the free
\* worker of lowest number takes the message.
SupStart(t, s) ==
    /\ pc[t] = "idle"
    /\ t <= cap.workers
    /\ \A u \in Tasks : u < t => pc[u] # "idle"
    /\ queue[s] > 0
    /\ queue' = [queue EXCEPT ![s] = @ - 1]
    /\ sid' = [sid EXCEPT ![t] = s]
    /\ IF ~Claimable(s)
       THEN /\ pc' = [pc EXCEPT ![t] = "skipped"]
            /\ UNCHANGED seen
       ELSE /\ pc' = [pc EXCEPT ![t] = "claimed"]
            /\ seen' = [seen EXCEPT ![t] = status[s]]
    /\ UNCHANGED <<now, cap, killVars, beats, storeVars, pid_key, video_duration, offset_seconds, attempt,
                   start_ts, wake, child, cancelVars, obsVars>>

StartExpired_Never(s) == FALSE

\* stream.py 125
StartExpired(s) == now - start_time[s] > StartExpirySecs

\* stream.py 131-167: channel, video, file (found) and probed duration (dur)
PreconditionFails(found, dur) ==
    \/ found \in {"no_channel", "video_not_ready", "no_file"}
    \/ dur <= 0

MarkStarted_Forgotten(s) == started_at

\* stream.py 171
MarkStarted(s) == [started_at EXCEPT ![s] = now]

\* stream.py 121-172
SupValidate(t, found, dur) ==
    LET s == sid[t] IN
    /\ pc[t] = "claimed"
    /\ IF StartExpired(s) \/ PreconditionFails(found, dur)
       THEN /\ status' = FlushStatus(t, s, "cancelled")
            /\ writer' = FlushWriter(t, s, "cancelled", "supervisor")
            /\ pc' = [pc EXCEPT ![t] = "rejected"]
            /\ seen' = [seen EXCEPT ![t] = "none"]
            /\ UNCHANGED <<started_at, video_duration>>
       ELSE /\ status' = FlushStatus(t, s, "live")
            /\ writer' = FlushWriter(t, s, "live", "supervisor")
            /\ started_at' = MarkStarted(s)
            /\ video_duration' = [video_duration EXCEPT ![t] = dur]
            /\ pc' = [pc EXCEPT ![t] = "find_ffmpeg"]
            /\ seen' = [seen EXCEPT ![t] = "expired"]
    /\ UNCHANGED <<now, cap, killVars, beats, start_time, duration, ended_at, error_message,
                   queue, pid_key, sid, offset_seconds, attempt, start_ts, wake, child,
                   cancelVars, launches, launch_offsets, sleeps, exits>>

\* stream.py 183-230, and the handler at 488-498 when no binary is found
SupFindFfmpeg(t, ffmpeg_bin) ==
    LET s == sid[t] IN
    /\ pc[t] = "find_ffmpeg"
    /\ IF ~ffmpeg_bin
       THEN /\ status' = FlushStatus(t, s, "cancelled")
            /\ writer' = FlushWriter(t, s, "cancelled", "supervisor")
            /\ error_message' = [error_message EXCEPT ![s] = TRUE]
            /\ pc' = [pc EXCEPT ![t] = "failed"]
            /\ seen' = [seen EXCEPT ![t] = "none"]
            /\ UNCHANGED <<offset_seconds, attempt>>
       ELSE /\ offset_seconds' = [offset_seconds EXCEPT ![t] = 0]
            /\ attempt' = [attempt EXCEPT ![t] = 0]
            /\ pc' = [pc EXCEPT ![t] = "loop"]
            /\ UNCHANGED <<status, writer, error_message, seen>>
    /\ UNCHANGED <<now, cap, killVars, beats, start_time, duration, started_at, ended_at,
                   queue, pid_key, sid, video_duration, start_ts, wake, child,
                   cancelVars, launches, launch_offsets, sleeps, exits>>

\* stream.py 232
LoopCondition(t) == offset_seconds[t] < video_duration[t]

\* stream.py 232-291: loop test, refresh, launch, publish the pid
SupLoop(t) ==
    LET s == sid[t] IN
    /\ pc[t] = "loop"
    /\ wake[t] = 0
    /\ attempt[t] < cap.attempts
    /\ IF ~LoopCondition(t)
       THEN /\ pc' = [pc EXCEPT ![t] = "finish"]
            /\ UNCHANGED <<attempt, seen, child, start_ts, pid_key, launches, launch_offsets>>
       ELSE /\ attempt' = [attempt EXCEPT ![t] = @ + 1]
            /\ seen' = [seen EXCEPT ![t] = status[s]]
            /\ IF status[s] # "live"
               THEN /\ pc' = [pc EXCEPT ![t] = "finish"]
                    /\ UNCHANGED <<child, start_ts, pid_key, launches, launch_offsets>>
               ELSE /\ child' = [child EXCEPT ![t] = "running"]
                    /\ start_ts' = [start_ts EXCEPT ![t] = now]
                    /\ launches' = [launches EXCEPT ![t] = @ + 1]
                    /\ launch_offsets' = [launch_offsets EXCEPT ![t] = Rec(@, offset_seconds[t])]
                    /\ pid_key' = [pid_key EXCEPT ![s] = <<t, launches[t] + 1>>]
                    /\ pc' = [pc EXCEPT ![t] = "monitor"]
    /\ UNCHANGED <<now, cap, killVars, beats, storeVars, queue, sid, video_duration, offset_seconds, wake,
                   cancelVars, sleeps, exits, writer>>

\* stream.py 232-240, 269-283, 488-498: at the top of an attempt the row is
\* still live and subprocess.Popen raises (OSError); the exception leaves
\* the loop and the outer handler writes cancelled and the error message.
\* The pid key is not touched.
SupPopenFails(t) ==
    LET s == sid[t] IN
    /\ pc[t] = "loop"
    /\ wake[t] = 0
    /\ attempt[t] < cap.attempts
    /\ LoopCondition(t)
    /\ status[s] = "live"
    /\ attempt' = [attempt EXCEPT ![t] = @ + 1]
    /\ status' = [status EXCEPT ![s] = "cancelled"]
    /\ writer' = [writer EXCEPT ![s] = "supervisor"]
    /\ error_message' = [error_message EXCEPT ![s] = TRUE]
    /\ pc' = [pc EXCEPT ![t] = "failed"]
    /\ seen' = [seen EXCEPT ![t] = "none"]
    /\ UNCHANGED <<now, cap, killVars, beats, start_time, duration, started_at, ended_at,
                   queue, pid_key, sid, video_duration, offset_seconds, start_ts, wake, child,
                   cancelVars, launches, launch_offsets, sleeps, exits>>

RetryDelay_Flat(n) == Min(Pow2(0), max_retry_delay)

RetryDelay_NoExpCap(n) == Min(Pow2(n - 1), max_retry_delay)

\* stream.py 455
RetryDelay(n) == Min(Pow2(Min(n - 1, MaxBackoffExp)), max_retry_delay)

NewOffset_Restart(off, run_duration) == run_duration

\* stream.py 415
NewOffset(off, run_duration) == off + run_duration

Completed_Strict(off, total) == off > total

\* stream.py 422
Completed(off, total) == off >= total

\* stream.py 429, 484: redis_client.delete(pid_key)
DeletePidKey(s) == [pid_key EXCEPT ![s] = NoPid]

AfterExit_ZeroIsSuccess(t, code, cached) ==
    LET s == sid[t]
        off == NewOffset(offset_seconds[t], now - start_ts[t])
    IN
    /\ offset_seconds' = [offset_seconds EXCEPT ![t] = off]
    /\ child' = [child EXCEPT ![t] = "none"]
    /\ start_ts' = [start_ts EXCEPT ![t] = 0]
    /\ IF Completed(off, video_duration[t]) \/ code = "ok"
       THEN /\ status' = IF cached = "ended" THEN status ELSE [status EXCEPT ![s] = "ended"]
            /\ writer' = IF cached = "ended" THEN writer ELSE [writer EXCEPT ![s] = "supervisor"]
            /\ ended_at' = [ended_at EXCEPT ![s] = now]
            /\ pid_key' = DeletePidKey(s)
            /\ pc' = [pc EXCEPT ![t] = "completed"]
            /\ seen' = [seen EXCEPT ![t] = "none"]
            /\ wake' = [wake EXCEPT ![t] = 0]
            /\ UNCHANGED sleeps
       ELSE /\ pc' = [pc EXCEPT ![t] = "loop"]
            /\ seen' = [seen EXCEPT ![t] = cached]
            /\ IF code = "ok"
               THEN /\ wake' = [wake EXCEPT ![t] = 0]
                    /\ UNCHANGED sleeps
               ELSE /\ wake' = [wake EXCEPT ![t] = RetryDelay(attempt[t])]
                    /\ sleeps' = [sleeps EXCEPT ![t] = Rec(@, RetryDelay(attempt[t]))]
            /\ UNCHANGED <<status, writer, ended_at, pid_key>>

\* stream.py 397-458: the child is gone; code is its exit code
\* ("ok" for 0, anything else is not 0), cached the status the session holds.
AfterExit(t, code, cached) ==
    LET s == sid[t]
        off == NewOffset(offset_seconds[t], now - start_ts[t])
    IN
    /\ offset_seconds' = [offset_seconds EXCEPT ![t] = off]
    /\ child' = [child EXCEPT ![t] = "none"]
    /\ start_ts' = [start_ts EXCEPT ![t] = 0]
    /\ IF Completed(off, video_duration[t])
       THEN /\ status' = IF cached = "ended" THEN status ELSE [status EXCEPT ![s] = "ended"]
            /\ writer' = IF cached = "ended" THEN writer ELSE [writer EXCEPT ![s] = "supervisor"]
            /\ ended_at' = [ended_at EXCEPT ![s] = now]
            /\ pid_key' = DeletePidKey(s)
            /\ pc' = [pc EXCEPT ![t] = "completed"]
            /\ seen' = [seen EXCEPT ![t] = "none"]
            /\ wake' = [wake EXCEPT ![t] = 0]
            /\ UNCHANGED sleeps
       ELSE /\ pc' = [pc EXCEPT ![t] = "loop"]
            /\ seen' = [seen EXCEPT ![t] = cached]
            /\ IF code = "ok"
               THEN /\ wake' = [wake EXCEPT ![t] = 0]
                    /\ UNCHANGED sleeps
               ELSE /\ wake' = [wake EXCEPT ![t] = RetryDelay(attempt[t])]
                    /\ sleeps' = [sleeps EXCEPT ![t] = Rec(@, RetryDelay(attempt[t]))]
            /\ UNCHANGED <<status, writer, ended_at, pid_key>>

StatusLost_Never(s) == FALSE

StatusLost_Always(s) == TRUE

\* stream.py 332-333: the refreshed row is no longer live
StatusLost(s) == status[s] # "live"

\* stream.py 327-394, then 397-458 when the poll loop is left
SupMonitor(t) ==
    LET s == sid[t] IN
    /\ pc[t] = "monitor"
    /\ wake[t] = 0
    /\ IF child[t] \in {"exit0", "exitfail"}
       THEN /\ AfterExit(t, IF child[t] = "exit0" THEN "ok" ELSE "fail", seen[t])
            /\ UNCHANGED exits
       ELSE IF child[t] = "stopped"
       THEN /\ seen' = [seen EXCEPT ![t] = status[s]]
            /\ pc' = [pc EXCEPT ![t] = "term_wait"]
            /\ wake' = [wake EXCEPT ![t] = TermWaitSecs]
            /\ UNCHANGED <<status, writer, ended_at, pid_key, offset_seconds, child,
                           start_ts, sleeps, exits>>
       ELSE IF StatusLost(s)
       THEN /\ exits' = [exits EXCEPT ![t] = Rec(@, "killed")]
            /\ AfterExit(t, "fail", status[s])
       ELSE /\ seen' = [seen EXCEPT ![t] = status[s]]
            /\ wake' = [wake EXCEPT ![t] = check_interval]
            /\ UNCHANGED <<status, writer, ended_at, pid_key, offset_seconds, child,
                           start_ts, sleeps, exits, pc>>
    /\ UNCHANGED <<now, cap, killVars, beats, start_time, duration, started_at, error_message,
                   queue, sid, video_duration, attempt, cancelVars, launches, launch_offsets>>

\* stream.py 336-340, 366-371: terminate() left a stopped child alive for
\* the whole wait(timeout=5); kill() ends it and the code reads returncode
\* None.
SupTermTimeout(t) ==
    /\ pc[t] = "term_wait"
    /\ (wake[t] = 0 \/ child[t] \in {"exit0", "exitfail"})
    /\ exits' = [exits EXCEPT ![t] = IF child[t] = "stopped" THEN Rec(@, "killed") ELSE @]
    /\ AfterExit(t, "fail", seen[t])
    /\ UNCHANGED <<now, cap, killVars, beats, start_time, duration, started_at, error_message,
                   queue, sid, video_duration, attempt, cancelVars, launches, launch_offsets>>

\* stream.py 295-394, 460-466: an exception is raised inside the try while
\* the child has not exited (in db.refresh at the top of a poll); the
\* handler calls terminate() and wait(timeout=5).  A running child ends on
\* SIGTERM; on a stopped child the signal stays pending.
SupMonitorRaises(t) ==
    /\ pc[t] = "monitor"
    /\ wake[t] = 0
    /\ child[t] \in {"running", "stopped"}
    /\ pc' = [pc EXCEPT ![t] = "except_wait"]
    /\ child' = [child EXCEPT ![t] = IF @ = "running" THEN "exitfail" ELSE @]
    /\ exits' = [exits EXCEPT ![t] = IF child[t] = "running" THEN Rec(@, "killed") ELSE @]
    /\ wake' = [wake EXCEPT ![t] = IF child[t] = "running" THEN 0 ELSE TermWaitSecs]
    /\ UNCHANGED <<now, cap, killVars, beats, storeVars, queue, pid_key, sid, seen, video_duration,
                   offset_seconds, attempt, start_ts, cancelVars,
                   launches, launch_offsets, sleeps, writer>>

SupExceptRetry_Fatal(t) ==
    /\ pc[t] = "except_wait"
    /\ (wake[t] = 0 \/ child[t] \in {"exit0", "exitfail"})
    /\ exits' = [exits EXCEPT ![t] = IF child[t] = "stopped" THEN Rec(@, "killed") ELSE @]
    /\ child' = [child EXCEPT ![t] = "none"]
    /\ status' = [status EXCEPT ![sid[t]] = "cancelled"]
    /\ error_message' = [error_message EXCEPT ![sid[t]] = TRUE]
    /\ writer' = [writer EXCEPT ![sid[t]] = "supervisor"]
    /\ pc' = [pc EXCEPT ![t] = "failed"]
    /\ UNCHANGED <<now, cap, killVars, beats, start_time, duration, started_at, ended_at,
                   queue, pid_key, sid, seen, video_duration, offset_seconds, attempt,
                   start_ts, wake, cancelVars, launches, launch_offsets, sleeps>>

\* stream.py 466-477: the wait is over (kill() after its timeout); the
\* handler sleeps the backoff delay and continues the loop.  The offset is
\* not advanced (line 415 was skipped).
SupExceptRetry(t) ==
    /\ pc[t] = "except_wait"
    /\ (wake[t] = 0 \/ child[t] \in {"exit0", "exitfail"})
    /\ exits' = [exits EXCEPT ![t] = IF child[t] = "stopped" THEN Rec(@, "killed") ELSE @]
    /\ child' = [child EXCEPT ![t] = "none"]
    /\ start_ts' = [start_ts EXCEPT ![t] = 0]
    /\ wake' = [wake EXCEPT ![t] = RetryDelay(attempt[t])]
    /\ sleeps' = [sleeps EXCEPT ![t] = Rec(@, RetryDelay(attempt[t]))]
    /\ pc' = [pc EXCEPT ![t] = "loop"]
    /\ UNCHANGED <<now, cap, killVars, beats, storeVars, queue, pid_key, sid, seen, video_duration,
                   offset_seconds, attempt, cancelVars, launches, launch_offsets, writer>>

\* stream.py 479-486
SupFinish(t) ==
    LET s == sid[t] IN
    /\ pc[t] = "finish"
    /\ status' = FlushStatus(t, s, "ended")
    /\ writer' = FlushWriter(t, s, "ended", "supervisor")
    /\ ended_at' = [ended_at EXCEPT ![s] = now]
    /\ pid_key' = DeletePidKey(s)
    /\ pc' = [pc EXCEPT ![t] = "stopped"]
    /\ seen' = [seen EXCEPT ![t] = "none"]
    /\ UNCHANGED <<now, cap, killVars, beats, start_time, duration, started_at, error_message,
                   queue, sid, video_duration, offset_seconds, attempt, start_ts, wake, child,
                   cancelVars, launches, launch_offsets, sleeps, exits>>

\* ------------------------------------------------------------ remux child
\* ffmpeg ends by itself, with exit code 0 or not.
ChildExit(t, code) ==
    /\ child[t] = "running"
    /\ child' = [child EXCEPT ![t] = IF code = "ok" THEN "exit0" ELSE "exitfail"]
    /\ exits' = [exits EXCEPT ![t] = Rec(@, code)]
    /\ UNCHANGED <<now, cap, killVars, beats, storeVars, queue, pid_key, pc, sid, seen, video_duration,
                   offset_seconds, attempt, start_ts, wake, cancelVars,
                   launches, launch_offsets, sleeps, writer>>

\* an outside SIGSTOP
ChildStop(t) ==
    /\ child[t] = "running"
    /\ child' = [child EXCEPT ![t] = "stopped"]
    /\ UNCHANGED <<now, cap, killVars, beats, storeVars, queue, pid_key, pc, sid, seen, video_duration,
                   offset_seconds, attempt, start_ts, wake, cancelVars, obsVars>>

\* ------------------------------------------------- dashboard.cancel_stream
\* os.getpgid(pid) finds the process while it runs, is stopped, or has
\* exited without being reaped by its parent yet.
ProcessExists(pid) ==
    /\ pid # NoPid
    /\ launches[pid[1]] = pid[2]
    /\ child[pid[1]] # "none"

\* SIGTERM ends a running child and stays pending on a stopped one;
\* SIGKILL ends both.
AfterSignal(ch, sig) ==
    IF ch = "running" \/ (ch = "stopped" /\ sig = "SIGKILL") THEN "exitfail" ELSE ch

Signal(pid, sig) ==
    /\ child' = [child EXCEPT ![pid[1]] = AfterSignal(@, sig)]
    /\ exits' = [exits EXCEPT ![pid[1]] =
                    IF AfterSignal(child[pid[1]], sig) # child[pid[1]] THEN Rec(@, "killed") ELSE @]

CancelAllowed_Always(s) == TRUE

\* dashboard.py 359
CancelAllowed(s) == status[s] \in {"scheduled", "live"}

\* dashboard.py 350-363: HTTP 400 for a stream that is neither scheduled
\* nor live
CancelRejected(s) ==
    /\ cpc = "idle"
    /\ ~CancelAllowed(s)
    /\ cpc' = "rejected"
    /\ csid' = s
    /\ UNCHANGED <<now, cap, killVars, beats, storeVars, queue, pid_key, taskVars, cpid, cwake,
                   obsVars>>

\* dashboard.py 350-401 up to the sleep (or to the end of the kill block)
CancelRead(s) ==
    /\ cpc = "idle"
    /\ CancelAllowed(s)
    /\ csid' = s
    /\ IF status[s] = "live" /\ pid_key[s] # NoPid
       THEN IF ProcessExists(pid_key[s])
            THEN /\ Signal(pid_key[s], "SIGTERM")
                 /\ cpid' = pid_key[s]
                 /\ cwake' = CancelKillWaitSecs
                 /\ cpc' = "kill_wait"
                 /\ UNCHANGED pid_key
            ELSE /\ pid_key' = [pid_key EXCEPT ![s] = NoPid]
                 /\ cpc' = "write"
                 /\ UNCHANGED <<cpid, cwake, child, exits>>
       ELSE /\ cpc' = "write"
            /\ UNCHANGED <<cpid, cwake, child, exits, pid_key>>
    /\ UNCHANGED <<now, cap, killVars, beats, storeVars, queue, pc, sid, seen, video_duration, offset_seconds,
                   attempt, start_ts, wake, launches, launch_offsets, sleeps, writer>>

CancelCommit_StatusKept(s) ==
    /\ status' = status
    /\ ended_at' = [ended_at EXCEPT ![s] = now]
    /\ writer' = [writer EXCEPT ![s] = "cancel"]
    /\ cpc' = "done"

\* dashboard.py 406-408
CancelCommit(s) ==
    /\ status' = [status EXCEPT ![s] = "cancelled"]
    /\ ended_at' = [ended_at EXCEPT ![s] = now]
    /\ writer' = [writer EXCEPT ![s] = "cancel"]
    /\ cpc' = "done"

\* dashboard.py 384-399: after the sleep, SIGKILL and delete the key; the
\* commit to the Store follows as a separate step
CancelKill ==
    /\ cpc = "kill_wait"
    /\ cwake = 0
    /\ IF ProcessExists(cpid)
       THEN Signal(cpid, "SIGKILL")
       ELSE UNCHANGED <<child, exits>>
    /\ pid_key' = [pid_key EXCEPT ![csid] = NoPid]
    /\ cpc' = "write"
    /\ UNCHANGED <<now, cap, killVars, beats, storeVars, writer,
                   queue, pc, sid, seen, video_duration, offset_seconds, attempt, start_ts, wake,
                   csid, cpid, cwake, launches, launch_offsets, sleeps>>

\* dashboard.py 406-408
CancelWrite ==
    /\ cpc = "write"
    /\ CancelCommit(csid)
    /\ UNCHANGED <<now, cap, killVars, beats, start_time, duration, started_at, error_message,
                   queue, pid_key, taskVars, csid, cpid, cwake,
                   launches, launch_offsets, sleeps, exits>>

\* ----------------------------------------------------- kill_stream_process
KillReport_Failure(found) == "failure"

\* stream.py 642, 703-708: what the task returns once it has looked the key
\* up: {"success": True} after the kill block, {"success": False} when the
\* key holds nothing.
KillReport(found) == IF found THEN "success" ELSE "failure"

\* stream.py 633-668: read the key; without a pid, return; with the pid of a
\* process that is gone, delete the key and return; otherwise SIGTERM and
\* sleep.
kill_stream_process(s) ==
    /\ kpc = "idle"
    /\ ksid' = s
    /\ IF pid_key[s] = NoPid
       THEN /\ kresult' = KillReport(FALSE)
            /\ kpc' = "done"
            /\ UNCHANGED <<kpid, kwake, pid_key, child, exits>>
       ELSE IF ProcessExists(pid_key[s])
       THEN /\ Signal(pid_key[s], "SIGTERM")
            /\ kpid' = pid_key[s]
            /\ kwake' = KillWaitSecs
            /\ kpc' = "kill_wait"
            /\ UNCHANGED <<kresult, pid_key>>
       ELSE /\ pid_key' = [pid_key EXCEPT ![s] = NoPid]
            /\ kresult' = KillReport(TRUE)
            /\ kpc' = "done"
            /\ UNCHANGED <<kpid, kwake, child, exits>>
    /\ UNCHANGED <<now, cap, beats, storeVars, queue, pc, sid, seen, video_duration,
                   offset_seconds, attempt, start_ts, wake, cancelVars,
                   launches, launch_offsets, sleeps, writer>>

\* stream.py 670-705: after the sleep, SIGKILL if the process is still
\* there (waitpid on a process of another worker reaps nothing), delete the
\* key, return success.
KillAfterSleep ==
    /\ kpc = "kill_wait"
    /\ kwake = 0
    /\ IF ProcessExists(kpid)
       THEN Signal(kpid, "SIGKILL")
       ELSE UNCHANGED <<child, exits>>
    /\ pid_key' = [pid_key EXCEPT ![ksid] = NoPid]
    /\ kresult' = KillReport(TRUE)
    /\ kpc' = "done"
    /\ UNCHANGED <<now, cap, beats, storeVars, queue, pc, sid, seen, video_duration,
                   offset_seconds, attempt, start_ts, wake, cancelVars, ksid, kpid, kwake,
                   launches, launch_offsets, sleeps, writer>>

\* ------------------------------------------------------------------- Next
Next ==
    \/ \E d \in TickSteps : Tick(d)
    \/ check_and_start_streams
    \/ check_live_streams
    \/ \E t \in Tasks, s \in Streams : SupStart(t, s)
    \/ \E t \in Tasks, found \in Setups, dur \in VideoDurations : SupValidate(t, found, dur)
    \/ \E t \in Tasks, ffmpeg_bin \in BOOLEAN : SupFindFfmpeg(t, ffmpeg_bin)
    \/ \E t \in Tasks : SupLoop(t)
    \/ \E t \in Tasks : SupPopenFails(t)
    \/ \E t \in Tasks : SupMonitor(t)
    \/ \E t \in Tasks : SupTermTimeout(t)
    \/ \E t \in Tasks : SupMonitorRaises(t)
    \/ \E t \in Tasks : SupExceptRetry(t)
    \/ \E t \in Tasks : SupFinish(t)
    \/ \E t \in Tasks, code \in {"ok", "fail"} : ChildExit(t, code)
    \/ \E t \in Tasks : ChildStop(t)
    \/ \E s \in Streams : CancelRejected(s)
    \/ \E s \in Streams : CancelRead(s)
    \/ CancelKill
    \/ CancelWrite
    \/ \E s \in Streams : stop_stream(s)

\* One worker, every operation.
Spec == Init /\ [][Next]_vars

\* Two workers of the 'stream' queue, the beat's promote duty and the
\* children: the start requests of one stream racing each other.
InitRace ==
    /\ InitCommon
    /\ cap = [clock |-> MaxFine, fine |-> MaxFine, attempts |-> MaxAttempts,
              workers |-> NumTasks, record |-> FALSE]

NextRace ==
    \/ \E d \in TickSteps : Tick(d)
    \/ check_and_start_streams
    \/ \E t \in Tasks, s \in Streams : SupStart(t, s)
    \/ \E t \in Tasks, found \in Setups, dur \in VideoDurations : SupValidate(t, found, dur)
    \/ \E t \in Tasks, ffmpeg_bin \in BOOLEAN : SupFindFfmpeg(t, ffmpeg_bin)
    \/ \E t \in Tasks : SupLoop(t)
    \/ \E t \in Tasks : SupMonitor(t)
    \/ \E t \in Tasks : SupFinish(t)
    \/ \E t \in Tasks, code \in {"ok", "fail"} : ChildExit(t, code)

SpecRace == InitRace /\ [][NextRace]_vars

\* One supervisor, its children, one kill_stream_process task and one
\* cancel request for the stream, whose start request the promote duty has
\* just dispatched.
InitKill ==
    /\ InitRows
    /\ queue = [s \in Streams |-> 1]
    /\ \A s \in Streams : start_time[s] = 0 /\ duration[s] \in Durations
    /\ cap = [clock |-> MaxClock, fine |-> MaxFine, attempts |-> MaxAttempts,
              workers |-> 1, record |-> FALSE]

NextKill ==
    \/ \E d \in TickSteps : Tick(d)
    \/ \E t \in Tasks, s \in Streams : SupStart(t, s)
    \/ \E t \in Tasks, found \in Setups, dur \in VideoDurations : SupValidate(t, found, dur)
    \/ \E t \in Tasks, ffmpeg_bin \in BOOLEAN : SupFindFfmpeg(t, ffmpeg_bin)
    \/ \E t \in Tasks : SupLoop(t)
    \/ \E t \in Tasks : SupMonitor(t)
    \/ \E t \in Tasks : SupTermTimeout(t)
    \/ \E t \in Tasks, code \in {"ok", "fail"} : ChildExit(t, code)
    \/ \E t \in Tasks : ChildStop(t)
    \/ \E s \in Streams : kill_stream_process(s)
    \/ KillAfterSleep
    \/ \E s \in Streams : CancelRejected(s)
    \/ \E s \in Streams : CancelRead(s)
    \/ CancelKill
    \/ CancelWrite

SpecKill == InitKill /\ [][NextKill]_vars

\* One supervisor left alone with its children (no cancel, no stop, no
\* beat task), with the observers recording.  The promote duty has just
\* dispatched the one start request of a stream that is due.  Time passes
\* while a child runs or the supervisor sleeps.
InitSolo ==
    /\ InitRows
    /\ queue = [s \in Streams |-> 1]
    /\ \A s \in Streams : start_time[s] = 0 /\ duration[s] = MaxDuration
    /\ cap = [clock |-> MaxSoloClock, fine |-> GraceSecs, attempts |-> MaxSoloAttempts,
              workers |-> 1, record |-> TRUE]

NextSolo ==
    \/ RunSecond
    \/ \E t \in Tasks : SleepThrough(t)
    \/ \E t \in Tasks, s \in Streams : SupStart(t, s)
    \/ \E t \in Tasks, found \in Setups, dur \in VideoDurations : SupValidate(t, found, dur)
    \/ \E t \in Tasks, ffmpeg_bin \in BOOLEAN : SupFindFfmpeg(t, ffmpeg_bin)
    \/ \E t \in Tasks : SupLoop(t)
    \/ \E t \in Tasks : SupMonitor(t)
    \/ \E t \in Tasks, code \in {"ok", "fail"} : ChildExit(t, code)

SpecSolo == InitSolo /\ [][NextSolo]_vars

\* ffmpeg ends by itself after it has run for a while (a run_duration > 0
\* at stream.py 399).
ChildExitsAfterRun(t, code) ==
    /\ now > start_ts[t]
    /\ ChildExit(t, code)

\* One supervisor on a flaky network, with the expiry duty of the beat
\* scheduler running beside it: the setup is sound, the video and the row
\* both last FlakyDuration seconds, nobody cancels or stops the stream, no
\* exception is raised, and every child runs for at least a second before
\* it exits.
InitFlaky ==
    /\ InitRows
    /\ queue = [s \in Streams |-> 1]
    /\ \A s \in Streams : start_time[s] = 0 /\ duration[s] = FlakyDuration
    /\ cap = [clock |-> MaxSoloClock, fine |-> GraceSecs, attempts |-> MaxSoloAttempts,
              workers |-> 1, record |-> FALSE]

NextFlaky ==
    \/ RunSecond
    \/ \E t \in Tasks : SleepThrough(t)
    \/ check_live_streams
    \/ \E t \in Tasks, s \in Streams : SupStart(t, s)
    \/ \E t \in Tasks : SupValidate(t, "ok", FlakyDuration)
    \/ \E t \in Tasks : SupFindFfmpeg(t, TRUE)
    \/ \E t \in Tasks : SupLoop(t)
    \/ \E t \in Tasks : SupMonitor(t)
    \/ \E t \in Tasks : SupFinish(t)
    \/ \E t \in Tasks, code \in {"ok", "fail"} : ChildExitsAfterRun(t, code)

SpecFlaky == InitFlaky /\ [][NextFlaky]_vars

\* A second of a child that still has video left to send (ffmpeg -re reads
\* the input at its native rate, stream.py 247-267).
ContentSecond ==
    /\ \E t \in Tasks :
          child[t] = "running" /\ now - start_ts[t] < video_duration[t] - offset_seconds[t]
    /\ Tick(1)

\* The rest of a time.sleep of the supervisor whose child is not running.
PollSleep(t) ==
    /\ child[t] # "running"
    /\ SleepThrough(t)

\* ffmpeg reaches the end of the input and exits with code 0.
ChildCompletes(t) ==
    /\ now - start_ts[t] = video_duration[t] - offset_seconds[t]
    /\ ChildExit(t, "ok")

\* The two beat duties and one worker, a stream that is due, a sound setup
\* and a child that never fails; nobody cancels.  Time passes while the
\* child sends video and while the supervisor sleeps between polls.  The
\* beat scheduler keeps running its duties, the worker keeps running the
\* task it took, and the child keeps running.
InitHappy ==
    /\ InitCommon
    /\ \A s \in Streams : start_time[s] \in {0, 0 - PromoteWindowSecs}
    /\ cap = [clock |-> MaxClock, fine |-> GraceSecs, attempts |-> MaxAttempts,
              workers |-> 1, record |-> FALSE]

NextHappy ==
    \/ ContentSecond
    \/ \E t \in Tasks : PollSleep(t)
    \/ check_and_start_streams
    \/ check_live_streams
    \/ \E t \in Tasks, s \in Streams : SupStart(t, s)
    \/ \E t \in Tasks, dur \in VideoDurations \ {0} : SupValidate(t, "ok", dur)
    \/ \E t \in Tasks : SupFindFfmpeg(t, TRUE)
    \/ \E t \in Tasks : SupLoop(t)
    \/ \E t \in Tasks : SupMonitor(t)
    \/ \E t \in Tasks : ChildCompletes(t)

SpecHappy ==
    /\ InitHappy
    /\ [][NextHappy]_vars
    /\ WF_vars(ContentSecond)
    /\ WF_vars(\E t \in Tasks : PollSleep(t))
    /\ WF_vars(check_and_start_streams)
    /\ WF_vars(\E t \in Tasks, s \in Streams : SupStart(t, s))
    /\ WF_vars(\E t \in Tasks, dur \in VideoDurations \ {0} : SupValidate(t, "ok", dur))
    /\ WF_vars(\E t \in Tasks : SupFindFfmpeg(t, TRUE))
    /\ WF_vars(\E t \in Tasks : SupLoop(t))
    /\ WF_vars(\E t \in Tasks : SupMonitor(t))
    /\ WF_vars(\E t \in Tasks : ChildCompletes(t))

\* The worker process that runs the supervisor is killed (celery_app.py 42:
\* the pool kills a task's process at task_time_limit; an OOM kill or a
\* host restart does the same): the task writes nothing more.  The child
\* has its own session and is not touched.
SupDies(t) ==
    /\ pc[t] \in {"find_ffmpeg", "loop", "monitor", "term_wait"}
    /\ pc' = [pc EXCEPT ![t] = "dead"]
    /\ UNCHANGED <<now, cap, killVars, beats, storeVars, queue, pid_key, sid, seen,
                   video_duration, offset_seconds, attempt, start_ts, wake, child,
                   cancelVars, obsVars>>

\* One supervisor that may die once its stream is live, its child, and the
\* expiry duty of the beat scheduler.
InitOrphan ==
    /\ InitCommon
    /\ cap = [clock |-> MaxClock, fine |-> MaxFine, attempts |-> MaxAttempts,
              workers |-> 1, record |-> FALSE]

NextOrphan ==
    \/ \E d \in TickSteps : Tick(d)
    \/ check_and_start_streams
    \/ check_live_streams
    \/ \E t \in Tasks, s \in Streams : SupStart(t, s)
    \/ \E t \in Tasks, found \in Setups, dur \in VideoDurations : SupValidate(t, found, dur)
    \/ \E t \in Tasks, ffmpeg_bin \in BOOLEAN : SupFindFfmpeg(t, ffmpeg_bin)
    \/ \E t \in Tasks : SupLoop(t)
    \/ \E t \in Tasks : SupMonitor(t)
    \/ \E t \in Tasks : SupFinish(t)
    \/ \E t \in Tasks, code \in {"ok", "fail"} : ChildExit(t, code)
    \/ \E t \in Tasks : SupDies(t)

SpecOrphan == InitOrphan /\ [][NextOrphan]_vars

\* One start request that has waited in the queue of a busy worker since
\* the promote duty dispatched it: when the clock starts, the stream's
\* start time is exactly ten minutes old.
InitLate ==
    /\ InitRows
    /\ queue = [s \in Streams |-> 1]
    /\ \A s \in Streams : start_time[s] = 0 - StartExpirySecs /\ duration[s] \in Durations
    /\ cap = [clock |-> MaxClock, fine |-> MaxFine, attempts |-> MaxAttempts,
              workers |-> 1, record |-> FALSE]

NextLate ==
    \/ \E d \in TickSteps : Tick(d)
    \/ \E t \in Tasks, s \in Streams : SupStart(t, s)
    \/ \E t \in Tasks, found \in Setups, dur \in VideoDurations : SupValidate(t, found, dur)
    \/ \E t \in Tasks, ffmpeg_bin \in BOOLEAN : SupFindFfmpeg(t, ffmpeg_bin)
    \/ \E t \in Tasks : SupLoop(t)
    \/ \E t \in Tasks : SupMonitor(t)
    \/ \E t \in Tasks, code \in {"ok", "fail"} : ChildExit(t, code)

SpecLate == InitLate /\ [][NextLate]_vars

\* The beat scheduler alone: both duties run again and again (celery_app.py
\* 54-61) and the clock runs past the stale threshold of every stream, but
\* no worker ever takes a start request from the queue.
IdleSteps == {1, GraceSecs, LongStep}

InitIdle ==
    /\ InitCommon
    /\ cap = [clock |-> MaxIdleClock, fine |-> MaxFine, attempts |-> MaxAttempts,
              workers |-> 0, record |-> FALSE]

NextIdle ==
    \/ \E d \in IdleSteps : Tick(d)
    \/ check_and_start_streams
    \/ check_live_streams

SpecIdle ==
    /\ InitIdle
    /\ [][NextIdle]_vars
    /\ WF_vars(\E d \in IdleSteps : Tick(d))
    /\ WF_vars(check_and_start_streams)
    /\ WF_vars(check_live_streams)

\* A second passes while somebody waits for it: a supervisor or Cancel in a
\* time.sleep, or a child that still has video to send.
WaitingSecond ==
    /\ \A t \in Tasks :
          child[t] = "running" => now - start_ts[t] < video_duration[t] - offset_seconds[t]
    /\ \/ cwake > 0
       \/ \E t \in Tasks : wake[t] > 0 \/ child[t] = "running"
    /\ Tick(1)

\* ffmpeg fails on its own (network, RTMP) in one of the first attempts.
ChildFails(t) ==
    /\ attempt[t] + 3 < cap.attempts
    /\ ChildExit(t, "fail")

AfterTtl_Kept(s) == pid_key

\* stream.py 289: setex gives the entry a time to live; Redis drops the
\* entry when it is over
AfterTtl(s) == [pid_key EXCEPT ![s] = NoPid]

\* Nobody sleeps and no child runs, and a whole time to live passes: the
\* entry, written at or before now, has expired.
PidKeyExpires(s) ==
    /\ pid_key[s] # NoPid
    /\ cwake = 0
    /\ kwake = 0
    /\ \A t \in Tasks : wake[t] = 0 /\ child[t] # "running"
    /\ now + PidKeyTtlSecs <= cap.clock
    /\ now' = now + PidKeyTtlSecs
    /\ pid_key' = AfterTtl(s)
    /\ UNCHANGED <<cap, beats, storeVars, queue, taskVars, cancelVars, killVars, obsVars>>

\* One supervisor with its retry loop and its child, a launch that may
\* fail, and Cancel requests of the user at any moment.  The supervisor, the child and a Cancel request
\* that has begun keep taking steps.
InitCancel ==
    /\ InitCommon
    /\ \A s \in Streams : start_time[s] = 0
    /\ cap = [clock |-> (MaxCancelAttempts + 1) * PidKeyTtlSecs + MaxSoloClock,
              fine |-> GraceSecs, attempts |-> MaxCancelAttempts, workers |-> 1,
              record |-> FALSE]

NextCancel ==
    \/ WaitingSecond
    \/ check_and_start_streams
    \/ \E t \in Tasks, s \in Streams : SupStart(t, s)
    \/ \E t \in Tasks, dur \in VideoDurations \ {0} : SupValidate(t, "ok", dur)
    \/ \E t \in Tasks : SupFindFfmpeg(t, TRUE)
    \/ \E t \in Tasks : SupLoop(t)
    \/ \E t \in Tasks : SupPopenFails(t)
    \/ \E t \in Tasks : SupMonitor(t)
    \/ \E t \in Tasks : SupFinish(t)
    \/ \E t \in Tasks : ChildCompletes(t)
    \/ \E t \in Tasks : ChildFails(t)
    \/ \E s \in Streams : CancelRead(s)
    \/ CancelKill
    \/ CancelWrite
    \/ \E s \in Streams : PidKeyExpires(s)

SpecCancel ==
    /\ InitCancel
    /\ [][NextCancel]_vars
    /\ WF_vars(WaitingSecond)
    /\ WF_vars(\E t \in Tasks, dur \in VideoDurations \ {0} : SupValidate(t, "ok", dur))
    /\ WF_vars(\E t \in Tasks : SupFindFfmpeg(t, TRUE))
    /\ WF_vars(\E t \in Tasks : SupLoop(t))
    /\ WF_vars(\E t \in Tasks : SupMonitor(t))
    /\ WF_vars(\E t \in Tasks : SupFinish(t))
    /\ WF_vars(\E t \in Tasks : ChildCompletes(t))
    /\ WF_vars(CancelKill)
    /\ WF_vars(CancelWrite)
    /\ WF_vars(\E s \in Streams : PidKeyExpires(s))

\* ================================================================ claims

\* a supervisor has taken the stream to live (stream.py 169-172)
ReachedLive(s) ==
    \E t \in Tasks :
        /\ sid[t] = s
        /\ pc[t] \in {"find_ffmpeg", "failed", "loop", "monitor", "term_wait", "except_wait", "finish",
                      "completed", "stopped"}

\* the task has passed claim-and-validate and entered the resume loop
ReachedLoop(t) ==
    pc[t] \in {"loop", "monitor", "term_wait", "except_wait", "finish", "completed", "stopped"}

\* C1: of the start requests run for one stream, at most one passes the
\* claim step and reaches the resume loop, and only that one launches a
\* child.
C1_OneWinner ==
    \A s \in Streams :
        /\ Cardinality({t \in Tasks : sid[t] = s /\ ReachedLoop(t)}) <= 1
        /\ Cardinality({t \in Tasks : sid[t] = s /\ launches[t] > 0}) <= 1

AllowedTransitions ==
    {<<"scheduled", "live">>, <<"scheduled", "cancelled">>,
     <<"live", "ended">>, <<"live", "cancelled">>}

\* C2: every change of a stream's status is scheduled->live,
\* scheduled->cancelled, live->ended or live->cancelled, so that ended and
\* cancelled are never left.
C2_Transitions ==
    [][\A s \in Streams :
         status'[s] # status[s] => <<status[s], status'[s]>> \in AllowedTransitions]_vars

\* C3: ended_at is set exactly when the status is ended or cancelled.
C3_EndedAt ==
    \A s \in Streams : (ended_at[s] # NULL) <=> (status[s] \in {"ended", "cancelled"})

\* C4 as stated: started_at is set exactly when the status is live or ended
\* and the stream reached live; scheduled and cancelled rows have none.
C4_StartedAt_Stated ==
    \A s \in Streams :
        (started_at[s] # NULL) <=> (status[s] \in {"live", "ended"} /\ ReachedLive(s))

\* C4 amended: started_at is set exactly when the row has been live; a live
\* or ended row has it, a scheduled row does not (a cancelled row has it
\* when it was cancelled after going live).
C4_StartedAt ==
    \A s \in Streams :
        /\ (started_at[s] # NULL) <=> ReachedLive(s)
        /\ status[s] \in {"live", "ended"} => started_at[s] # NULL
        /\ status[s] = "scheduled" => started_at[s] = NULL

C4_Witness ==
    \E s \in Streams :
        status[s] = "cancelled" /\ writer[s] = "cancel" /\ started_at[s] # NULL

\* C5: within one run the offset never decreases, a child is only launched
\* from an offset below the total duration, and the offset is at or past
\* the total duration only once the run has declared completion.
C5_Offset ==
    [][\A t \in Tasks :
         /\ (ReachedLoop(t) /\ ReachedLoop(t)') => offset_seconds'[t] >= offset_seconds[t]
         /\ launches'[t] > launches[t] => offset_seconds'[t] < video_duration'[t]
         /\ (ReachedLoop(t)' /\ offset_seconds'[t] >= video_duration'[t])
                => pc'[t] = "completed"]_vars

C5_Witness ==
    \E t \in Tasks :
        child[t] = "running" /\ launches[t] >= 2 /\ offset_seconds[t] > 0

\* every failed child before the last one: exit codes other than 0
FailedThenDone(t) ==
    /\ pc[t] = "completed"
    /\ Len(exits[t]) >= 1
    /\ \A i \in 1..(Len(exits[t]) - 1) : exits[t][i] = "fail"

\* the delays grow strictly until they reach a plateau, stay on it, and
\* never pass the cap
IncreasingUntilCapped(sq) ==
    /\ \A i \in 1..Len(sq) : sq[i] <= max_retry_delay
    /\ \A i \in 1..(Len(sq) - 1) :
          \/ sq[i] < sq[i + 1]
          \/ \A j \in i..Len(sq) : sq[j] = sq[i]

\* C6: a run whose first k children fail and whose next child takes the
\* offset to the total duration launches k+1 children, sleeps k times with
\* delays that increase until capped, and leaves the stream ended.
C6_Retries ==
    \A t \in Tasks :
        FailedThenDone(t) =>
            LET k == Len(exits[t]) - 1 IN
            /\ launches[t] = k + 1
            /\ Len(sleeps[t]) = k
            /\ IncreasingUntilCapped(sleeps[t])
            /\ k >= 2 => sleeps[t][1] < sleeps[t][2]
            /\ status[sid[t]] = "ended"

C6_Witness ==
    \E t \in Tasks :
        /\ FailedThenDone(t)
        /\ exits[t] = <<"fail", "fail", "ok">>
        /\ Len(sleeps[t]) = 2
        /\ status[sid[t]] = "ended"

\* a backoff sleep starts: the supervisor records its delay
BackoffStarts(t) == Len(sleeps'[t]) > Len(sleeps[t])

\* C7 as stated: the delay slept after failed attempt n is min(2^(n-1), 30).
C7_Backoff_Stated ==
    [][\A t \in Tasks :
         BackoffStarts(t) => wake'[t] = Min(Pow2(attempt[t] - 1), 30)]_vars

\* C7 amended: the delay slept after failed attempt n is min(2^(n-1), 16):
\* the exponent stops at 4, so the cap of 30 is never reached.
C7_Backoff ==
    [][\A t \in Tasks :
         BackoffStarts(t) =>
            /\ wake'[t] = Min(Pow2(attempt[t] - 1), 16)
            /\ wake'[t] = sleeps'[t][Len(sleeps'[t])]]_vars

C7_Witness ==
    \E t \in Tasks : Len(sleeps[t]) >= 6 /\ sleeps[t][6] = 16 /\ attempt[t] = 6

\* the row of stream s is left as it was
RowUnchanged(s) ==
    /\ status'[s] = status[s]
    /\ started_at'[s] = started_at[s]
    /\ ended_at'[s] = ended_at[s]
    /\ error_message'[s] = error_message[s]
    /\ start_time'[s] = start_time[s]
    /\ duration'[s] = duration[s]

C9_CancelStale ==
    [][check_live_streams =>
         \A s \in Streams :
            /\ (status[s] = "scheduled" /\ now - start_time[s] > 3600)
                  => status'[s] = "cancelled"
            /\ (status[s] = "scheduled" /\ now - start_time[s] <= 3600)
                  => RowUnchanged(s)
            /\ status[s] \in {"ended", "cancelled"} => RowUnchanged(s)
            /\ status[s] = "live" => status'[s] # "cancelled"]_vars

C9_Witness ==
    \E s \in Streams :
        /\ writer[s] = "cancel_stale"
        /\ status[s] = "cancelled"
        /\ now - start_time[s] = 3601

\* C10: a run of the promote duty dispatches exactly one start request for
\* each scheduled stream with now - 5 min <= start_time <= now, none for any
\* other stream, and changes no stream row.
C10_Promote ==
    [][check_and_start_streams =>
         \A s \in Streams :
            /\ queue'[s] = queue[s] +
                  (IF /\ status[s] = "scheduled"
                      /\ now - 300 <= start_time[s]
                      /\ start_time[s] <= now
                   THEN 1 ELSE 0)
            /\ RowUnchanged(s)]_vars

C10_Witness ==
    \E s \in Streams :
        /\ queue[s] = 1
        /\ status[s] = "scheduled"
        /\ start_time[s] = now - 300

\* the kill task looks up the key of stream s and finds nothing
KillFindsNoEntry(s) == kpc = "idle" /\ kpc' # "idle" /\ ksid' = s /\ pid_key[s] = NoPid

\* C11: kill_stream_process on a stream without a Control Channel entry
\* sends no signal, changes neither the Store nor the Control Channel, and
\* reports success.
C11_KillNoOp ==
    [][\A s \in Streams :
         KillFindsNoEntry(s) =>
            /\ kresult' = "success"
            /\ UNCHANGED <<storeVars, pid_key, child>>]_vars

\* Cancel committed its write on stream s before the start time of s
CancelledBeforeStart(s) ==
    /\ writer[s] = "cancel"
    /\ ended_at[s] # NULL
    /\ ended_at[s] < start_time[s]

\* C12: once Cancel has committed on a stream whose start time is still in
\* the future, the stream is cancelled and stays so in every continuation:
\* started_at is never set, the status never becomes live, and any start
\* request for it is skipped.
C12_CancelFuture ==
    /\ [](\A s \in Streams :
            CancelledBeforeStart(s) =>
               /\ status[s] = "cancelled"
               /\ started_at[s] = NULL
               /\ \A t \in Tasks : sid[t] = s => pc[t] = "skipped")
    /\ [][\A s \in Streams : CancelledBeforeStart(s) => CancelledBeforeStart(s)']_vars

C12_Witness ==
    \E s \in Streams :
        /\ CancelledBeforeStart(s)
        /\ status[s] = "cancelled"
        /\ now > start_time[s]
        /\ beats = 1
\* C13: in Cancel of a live stream the Store write is committed before any
\* signal is sent: there is no state in which Cancel has signalled the child
\* and the stream is still live in the Store.
C13_StoreFirst ==
    \A s \in Streams : (cpc = "kill_wait" /\ csid = s) => status[s] # "live"

\* a Cancel request for stream s is answered or starts its work
CancelTaken(s) == cpc = "idle" /\ cpc' # "idle" /\ csid' = s

StartTaken(t, s) == pc[t] = "idle" /\ pc'[t] # "idle" /\ sid'[t] = s

\* C15: a start request executed on a stream that is not scheduled is a
\* no-op: the row and the Control Channel entry are unchanged, the task
\* stops there and never launches a child.
C15_StartSkipped ==
    /\ [][\A t \in Tasks, s \in Streams :
            (StartTaken(t, s) /\ status[s] # "scheduled") =>
               /\ pc'[t] = "skipped"
               /\ UNCHANGED <<storeVars, pid_key, child, launches>>]_vars
    /\ [][\A t \in Tasks : pc[t] = "skipped" => pc'[t] = "skipped"]_vars
    /\ [](\A t \in Tasks : pc[t] = "skipped" => launches[t] = 0 /\ child[t] = "none")

C15_Witness ==
    \E t \in Tasks, u \in Tasks :
        /\ pc[t] = "skipped"
        /\ sid[u] = sid[t]
        /\ status[sid[t]] = "live"
        /\ child[u] = "running"

\* claim-and-validate of task t stops on a failed precondition (not on the
\* expiry of the start time)
PreconditionStop(t) ==
    pc[t] = "claimed" /\ pc'[t] = "rejected" /\ ~StartExpired(sid[t])

\* C16: on a precondition failure the Supervisor sets the stream cancelled,
\* records the cause in error_message, leaves started_at unset and launches
\* no child.
C16_PreconditionFailure ==
    [][\A t \in Tasks :
         PreconditionStop(t) =>
            /\ status'[sid[t]] = "cancelled"
            /\ error_message'[sid[t]]
            /\ started_at'[sid[t]] = NULL
            /\ launches'[t] = 0]_vars

\* the run of task t ends on a fatal condition
FatalStop(t) == pc[t] # "failed" /\ pc'[t] = "failed"

\* C17: a fatal condition ends the run with the stream cancelled, the error
\* message set, no Control Channel entry left and no further child.
C17_Fatal ==
    /\ [][\A t \in Tasks :
            FatalStop(t) =>
               /\ status'[sid[t]] = "cancelled"
               /\ error_message'[sid[t]]
               /\ pid_key'[sid[t]] = NoPid
               /\ child'[t] = "none"]_vars
    /\ [][\A t \in Tasks :
            pc[t] = "failed" => pc'[t] = "failed" /\ launches'[t] = launches[t]]_vars

\* A step in which an exception is raised inside the resume loop.
RaisedInLoop(t) == SupPopenFails(t) \/ SupMonitorRaises(t)

\* C18 as stated: every exception raised inside the resume loop is fatal: the
\* row becomes cancelled with an error message and the run is not retried.
C18_ExceptionFatal ==
    [][\A t \in Tasks : RaisedInLoop(t) =>
          /\ status'[sid[t]] = "cancelled"
          /\ error_message'[sid[t]]
          /\ pc'[t] = "failed"]_vars

\* C18 amended: an exception raised by the launch is fatal (cancelled, error
\* message, no further launch); one raised while the child is monitored is
\* caught in the loop: the child is terminated, the row is left alone, and
\* after the backoff delay the loop resumes from the unchanged offset.
C18_ExceptionHandled ==
    /\ [][\A t \in Tasks : SupPopenFails(t) =>
            /\ status'[sid[t]] = "cancelled"
            /\ error_message'[sid[t]]
            /\ pc'[t] = "failed"]_vars
    /\ [][\A t \in Tasks : pc[t] = "failed" => pc'[t] = "failed" /\ launches'[t] = launches[t]]_vars
    /\ [][\A t \in Tasks : SupMonitorRaises(t) =>
            /\ pc'[t] = "except_wait"
            /\ child'[t] # "running"
            /\ UNCHANGED <<storeVars, offset_seconds, attempt>>]_vars
    /\ [][\A t \in Tasks : pc[t] = "except_wait" /\ pc'[t] # "except_wait" =>
            /\ pc'[t] = "loop"
            /\ child'[t] = "none"
            /\ wake'[t] = RetryDelay(attempt[t])
            /\ offset_seconds'[t] = offset_seconds[t]
            /\ error_message' = error_message]_vars

\* A supervisor that caught an exception while its stream is live, about to retry.
C18_Witness ==
    \E t \in Tasks : pc[t] = "except_wait" /\ status[sid[t]] = "live" /\ ~error_message[sid[t]]

\* A step in which the supervisor ends a child that had not exited.
SupervisorTerminates(t) ==
    /\ child[t] \in {"running", "stopped"}
    /\ child'[t] \notin {"running", "stopped"}
    /\ SupMonitor(t) \/ SupTermTimeout(t) \/ SupMonitorRaises(t) \/ SupExceptRetry(t)

\* C19 as stated: while the row is live the supervisor ends its child only
\* when the child is stopped (or a zombie); a running child is never ended.
C19_OnlyStopped ==
    [][\A t \in Tasks : SupervisorTerminates(t) /\ status[sid[t]] = "live" =>
          child[t] = "stopped"]_vars

\* C19 amended: while the row is live the supervisor ends its child only
\* when the child is stopped (or a zombie), or in the handler of an
\* exception raised while it monitors the child; a poll that finds the row
\* live and the child running leaves the child running.
C19_StoppedOrRaised ==
    /\ [][\A t \in Tasks : SupervisorTerminates(t) /\ status[sid[t]] = "live" =>
            child[t] = "stopped" \/ SupMonitorRaises(t)]_vars
    /\ [][\A t \in Tasks :
            SupMonitor(t) /\ status[sid[t]] = "live" /\ child[t] = "running" =>
                child'[t] = "running" /\ pc'[t] = "monitor"]_vars

\* A child still running, well past max_idle_time polls, under a live row.
C19_Witness ==
    \E t \in Tasks :
        /\ pc[t] = "monitor" /\ child[t] = "running" /\ status[sid[t]] = "live"
        /\ now - start_ts[t] >= 3 * check_interval

\* Task t has left the resume loop for good.
LeftLoop(t) == pc[t] \in {"finish", "stopped", "completed", "failed"}

\* C20: retries are capped only by the duration reached: on a live stream
\* that nobody cancels, whose children all run for a positive time, the
\* supervisor leaves the resume loop only through its completion step, with
\* the offset at the total duration and the row ended.
C20_RetriesUntilComplete ==
    \A t \in Tasks : LeftLoop(t) =>
        /\ pc[t] = "completed"
        /\ offset_seconds[t] >= video_duration[t]
        /\ status[sid[t]] = "ended"

\* C21: a due scheduled stream is dispatched by the promote run; with a
\* sound setup, a child that never fails and no cancel, the supervisor's run
\* ends in its completion step and nowhere else, the row is ended by the
\* supervisor, and ended_at - started_at lies between the duration and the
\* duration plus one poll interval.
C21_HappyPath ==
    /\ [][\A s \in Streams :
            (check_and_start_streams /\ status[s] = "scheduled"
                /\ start_time[s] <= now /\ now - start_time[s] <= PromoteWindowSecs)
            => queue'[s] = queue[s] + 1]_vars
    /\ [](\A t \in Tasks : pc[t] \notin {"skipped", "rejected", "failed", "finish", "stopped"})
    /\ [](\A t \in Tasks : pc[t] = "completed" =>
            /\ status[sid[t]] = "ended"
            /\ writer[sid[t]] = "supervisor"
            /\ ended_at[sid[t]] - started_at[sid[t]] >= video_duration[t]
            /\ ended_at[sid[t]] - started_at[sid[t]] <= video_duration[t] + check_interval)
    /\ <>(\E t \in Tasks : pc[t] = "completed")

\* A completed run whose last poll came after the child's exit.
C21_Witness ==
    \E t \in Tasks :
        /\ pc[t] = "completed"
        /\ status[sid[t]] = "ended"
        /\ ended_at[sid[t]] - started_at[sid[t]] > video_duration[t]

\* The entry of stream s names a process that is gone.
EntryOfGoneProcess(s) == pid_key[s] # NoPid /\ ~ProcessExists(pid_key[s])

\* C22: Kill and the kill step of Cancel are safe beside the supervisor that
\* monitors the same process id.  A kill that finds the process of the
\* entry gone, at its first look or after its sleep, reports success and
\* removes the entry; Cancel in that case removes the entry and goes on to
\* its commit; the supervisor whose child was killed goes on to its
\* child-exit handling (retry or completion), and no side records an error.
C22_KillSafe ==
    /\ [][\A s \in Streams : kill_stream_process(s) /\ EntryOfGoneProcess(s) =>
            kresult' = "success" /\ pid_key'[s] = NoPid /\ kpc' = "done"]_vars
    /\ [][KillAfterSleep =>
            kresult' = "success" /\ pid_key'[ksid] = NoPid /\ kpc' = "done"]_vars
    /\ [][\A s \in Streams : CancelRead(s) /\ EntryOfGoneProcess(s) =>
            pid_key'[s] = NoPid /\ cpc' = "write"]_vars
    /\ [][CancelKill => pid_key'[csid] = NoPid /\ cpc' = "write"]_vars
    /\ [][\A t \in Tasks :
            pc[t] \in {"monitor", "term_wait"} /\ pc'[t] # pc[t] =>
                /\ pc'[t] \in {"loop", "completed", "term_wait"}
                /\ child'[t] \in {"none", "stopped"}
                /\ error_message' = error_message]_vars
    /\ [](\A s \in Streams : error_message[s] =>
            \A t \in Tasks : sid[t] = s => launches[t] = 0)

\* Kill found the child gone after its sleep and reported success, and the
\* supervisor of that child is back in its loop.
C22_Witness ==
    /\ kpc = "done" /\ kresult = "success" /\ kpid # NoPid
    /\ pc[kpid[1]] = "loop"
    /\ child[kpid[1]] = "none"
    /\ status[ksid] = "live"

\* The supervisor of live stream s is dead.
Orphaned(s) ==
    /\ status[s] = "live"
    /\ started_at[s] # NULL
    /\ \E t \in Tasks : sid[t] = s /\ pc[t] = "dead"
    /\ \A t \in Tasks : sid[t] = s => pc[t] \in {"dead", "skipped"}

\* C23: a stream whose supervisor died after setting it live is closed by
\* the expiry duty: the run of the duty that finds the stream's time over
\* (duration and grace past started_at) sets status ended and ended_at.
C23_OrphanClosed ==
    [][\A s \in Streams :
          (check_live_streams /\ Orphaned(s)
              /\ now >= started_at[s] + duration[s] + GraceSecs)
          => status'[s] = "ended" /\ ended_at'[s] = now]_vars

\* C24: when the resume loop is left without completion, the supervisor's
\* next step leaves the row ended with ended_at = now and the entry
\* removed, whatever status the supervisor had observed.
C24_LoopExit ==
    [][\A t \in Tasks : pc[t] = "finish" /\ pc'[t] # "finish" =>
          /\ status'[sid[t]] = "ended"
          /\ ended_at'[sid[t]] = now
          /\ pid_key'[sid[t]] = NoPid]_vars

\* C25: the step in which, after a child exit, the offset has reached the
\* total duration leaves the row ended with ended_at = now and the entry
\* removed; the run has then returned and launches no further child.
C25_Completion ==
    /\ [][\A t \in Tasks : pc[t] # "completed" /\ pc'[t] = "completed" =>
            /\ offset_seconds'[t] >= video_duration[t]
            /\ status'[sid[t]] = "ended"
            /\ ended_at'[sid[t]] = now
            /\ pid_key'[sid[t]] = NoPid
            /\ child'[t] = "none"]_vars
    /\ [][\A t \in Tasks : pc[t] = "completed" =>
            pc'[t] = "completed" /\ launches'[t] = launches[t]]_vars

\* C26: the poll that finds the row no longer live while the child runs
\* terminates the child; polls are at most one poll interval apart; and a
\* supervisor that has observed a status other than live launches no
\* further child.
C26_StopWhenNotLive ==
    /\ [][\A t \in Tasks :
            SupMonitor(t) /\ child[t] = "running" /\ status[sid[t]] # "live" =>
                child'[t] = "none"]_vars
    /\ [](\A t \in Tasks : pc[t] = "monitor" => wake[t] <= check_interval)
    /\ [][\A t \in Tasks :
            seen[t] \in {"cancelled", "ended"} => launches'[t] = launches[t]]_vars

\* A supervisor back at the top of its loop after the poll that found the
\* row cancelled and ended the child.
C26_Witness ==
    \E t \in Tasks :
        /\ pc[t] = "loop" /\ seen[t] = "cancelled" /\ status[sid[t]] = "cancelled"
        /\ child[t] = "none" /\ launches[t] = 1

\* C27: an entry of the control channel names the child currently running
\* for the stream.  Stated here in its weakest reading: no entry names a
\* child whose exit the supervisor has already handled, unless the
\* supervisor is at the top of its loop about to launch the next one (so
\* not during a backoff sleep, nor after the run has ended).
C27_EntryIsLiveChild ==
    \A s \in Streams : pid_key[s] # NoPid =>
        \/ ProcessExists(pid_key[s])
        \/ pc[pid_key[s][1]] = "loop" /\ wake[pid_key[s][1]] = 0

\* C28: the offset a child is launched from is the sum of the run durations
\* of the run's earlier children: it is 0 before the first launch, every
\* launch reads from the current offset, and each time the supervisor is
\* done with a child the offset grows by the time that child was alive.
C28_OffsetIsSumOfRuns ==
    /\ [](\A t \in Tasks : ReachedLoop(t) /\ launches[t] = 0 => offset_seconds[t] = 0)
    /\ [][\A t \in Tasks : launches'[t] > launches[t] =>
            offset_seconds'[t] = offset_seconds[t]]_vars
    /\ [][\A t \in Tasks : child[t] # "none" /\ child'[t] = "none" =>
            offset_seconds'[t] = offset_seconds[t] + (now - start_ts[t])]_vars

\* C29: a child that exits with code 0 before the offset has reached the
\* total duration is not a success: the step that handles the exit writes
\* nothing to the row, which stays live, and takes the supervisor back to
\* the top of its loop without a backoff sleep; from there the next child
\* is launched from the updated offset.
C29_EarlyExitZero ==
    /\ [][\A t \in Tasks :
            (SupMonitor(t) /\ child[t] = "exit0" /\ offset_seconds'[t] < video_duration[t]) =>
                /\ pc'[t] = "loop" /\ wake'[t] = 0
                /\ offset_seconds'[t] = offset_seconds[t] + (now - start_ts[t])
                /\ status[sid[t]] = "live"
                /\ UNCHANGED <<storeVars, writer, sleeps>>]_vars
    /\ [][\A t \in Tasks :
            (pc[t] = "loop" /\ pc'[t] # "loop" /\ offset_seconds[t] < video_duration[t]) =>
                /\ child'[t] = "running"
                /\ launches'[t] = launches[t] + 1
                /\ launch_offsets'[t] = Append(launch_offsets[t], offset_seconds[t])]_vars

\* A second child running from the offset its predecessor, which exited
\* with code 0 too early, had reached; no backoff sleep was taken.
C29_Witness ==
    \E t \in Tasks :
        /\ child[t] = "running" /\ status[sid[t]] = "live"
        /\ exits[t] = <<"ok">> /\ sleeps[t] = << >>
        /\ launch_offsets[t] = <<0, 1>>

\* C30: a start request that runs on a scheduled stream more than ten
\* minutes after the start time cancels the row and stops: it sets neither
\* live nor started_at and launches no child.
C30_TooLate ==
    /\ [][\A t \in Tasks :
            (pc[t] = "claimed" /\ pc'[t] # "claimed"
                /\ now - start_time[sid[t]] > StartExpirySecs) =>
                    /\ pc'[t] = "rejected"
                    /\ status'[sid[t]] = "cancelled"
                    /\ started_at' = started_at]_vars
    /\ [][\A t \in Tasks : pc[t] = "rejected" => pc'[t] = "rejected"]_vars
    /\ [](\A t \in Tasks : pc[t] = "rejected" =>
            /\ launches[t] = 0 /\ child[t] = "none"
            /\ status[sid[t]] = "cancelled" /\ started_at[sid[t]] = NULL)

\* A request with a sound setup that was turned down only for its age.
C30_Witness ==
    \E t \in Tasks :
        /\ pc[t] = "rejected" /\ now - start_time[sid[t]] > StartExpirySecs
        /\ now = 1

\* C31: one transition of a row has one writer.  Once the expiry duty has
\* written live->ended (status and ended_at), no step of a supervisor of
\* that stream writes the status or ended_at of the row again.
C31_OneWriter ==
    [][\A t \in Tasks :
          (pc'[t] # pc[t] /\ sid[t] \in Streams /\ writer[sid[t]] = "expire") =>
              /\ status'[sid[t]] = status[sid[t]]
              /\ ended_at'[sid[t]] = ended_at[sid[t]]
              /\ writer'[sid[t]] = "expire"]_vars

\* C32: with the beat duties running and no worker ever executing a start
\* request, every stream that is scheduled eventually is live or cancelled.
C32_LeavesScheduled ==
    \A s \in Streams :
        (status[s] = "scheduled") ~> (status[s] \in {"live", "cancelled"})

\* a stream whose start request was dispatched and never executed has been
\* cancelled by the stale test
C32_Witness ==
    \E s \in Streams :
        /\ status[s] = "cancelled" /\ writer[s] = "cancel_stale"
        /\ queue[s] > 0 /\ start_time[s] >= 0
        /\ \A t \in Tasks : pc[t] = "idle"

\* the number of beat duties whose test selects stream s now
DutiesSelecting(s) ==
    Cardinality({d \in {"promote", "expire", "cancel_stale"} :
                    \/ d = "promote" /\ ShouldDispatch(s)
                    \/ d = "expire" /\ DurationExpired(s)
                    \/ d = "cancel_stale" /\ StaleScheduled(s)})

\* C33: at every moment at most one of the three duty tests (promote,
\* expire, cancel-stale) selects a given stream.
C33_DutiesDisjoint == \A s \in Streams : DutiesSelecting(s) <= 1

\* the stale test selects a stream that is still scheduled, and no other
\* duty's test does
C33_Witness ==
    \E s \in Streams : StaleScheduled(s) /\ DutiesSelecting(s) = 1 /\ beats = 1

\* the columns of the streams row that the duties and the supervisor write
Row(s) == <<status[s], started_at[s], ended_at[s], error_message[s]>>

\* task u has executed a start request for stream s and set the row live
HasStarted(u, s) ==
    /\ sid[u] = s
    /\ pc[u] \in {"find_ffmpeg", "failed", "loop", "monitor", "term_wait", "except_wait",
                  "finish", "completed", "stopped"}

\* a beat run that has written the row of a stream leaves no test of
\* check_live_streams selecting it: a second run at the same time writes
\* nothing (the promote duty never writes the Store)
C34_DutyRunTwice ==
    [][\A s \in Streams :
          (beats' # beats /\ Row(s)' # Row(s)) =>
              (~DurationExpired(s))' /\ (~StaleScheduled(s))']_vars

\* C34: each duty is idempotent.  A second run of a duty at the same time
\* leaves the Store as the first did, and a duplicate start request of the
\* promote duty leaves the stream's row as a single one would: once one
\* request has taken the stream live, no step of another request for the
\* same stream writes the row.
C34_Idempotent ==
    [][/\ \A s \in Streams :
            (beats' # beats /\ Row(s)' # Row(s)) =>
                (~DurationExpired(s))' /\ (~StaleScheduled(s))'
       /\ \A t \in Tasks :
            (/\ pc'[t] # pc[t]
             /\ sid[t] \in Streams
             /\ \E u \in Tasks \ {t} : HasStarted(u, sid[t]))
                => Row(sid[t])' = Row(sid[t])]_vars

\* C35: at any time at most one remux child of a stream is running.
C35_OneChild ==
    \A s \in Streams :
        Cardinality({t \in Tasks : sid[t] = s /\ child[t] = "running"}) <= 1

\* C36: once Cancel has returned success for a stream, the stream's status
\* is not live at any later time.
C36_CancelledStays == (cpc = "done") => (status[csid] # "live")

\* no child of stream s is running and the Control Channel holds no entry
\* for s
Quiet(s) ==
    /\ pid_key[s] = NoPid
    /\ \A t \in Tasks : sid[t] = s => child[t] # "running"

\* the exploration limits of SpecCancel are not what stops a run
C37_WithinLimits ==
    /\ now < cap.clock
    /\ \A s \in Streams : pid_key[s] # NoPid => now + PidKeyTtlSecs <= cap.clock
    /\ \A t \in Tasks : pc[t] = "loop" => attempt[t] < cap.attempts

\* C37: after Cancel of a stream that has been taken live has returned,
\* eventually, and from then on, no remux child of the stream is running
\* and the Control Channel has no entry for it.
C37_CancelCleansUp ==
    \A s \in Streams :
        [](cpc = "done" /\ csid = s /\ started_at[s] # NULL => <>[]Quiet(s))

\* Cancel has returned while a child launched during its kill wait is
\* running and has published its pid
C37_Witness ==
    /\ cpc = "done" /\ cpid # NoPid
    /\ pid_key[csid] # NoPid /\ pid_key[csid] # cpid
    /\ \E t \in Tasks : sid[t] = csid /\ child[t] = "running"

\* Task t is in the backoff of its resume loop: its stream is live, a child
\* has been launched and has failed at once, and the offset has not moved.
RetryingWithoutProgress(t) ==
    /\ sid[t] \in Streams
    /\ pc[t] = "loop"
    /\ launches[t] > 0
    /\ offset_seconds[t] = 0
    /\ status[sid[t]] = "live"

\* C38: a supervisor whose children fail at once without advancing the
\* offset still returns, because the expiry duty takes the stream out of
\* live: the run of the duty that finds the stream's time over (duration
\* and grace past started_at) leaves the row not live, so that the next
\* loop test of the supervisor ends the run.
C38_LoopTerminates ==
    [][\A t \in Tasks :
          (/\ check_live_streams
           /\ RetryingWithoutProgress(t)
           /\ now >= started_at[sid[t]] + duration[sid[t]] + GraceSecs)
          => status'[sid[t]] # "live"]_vars

\* the same for the rows whose duration is not 0
C38_LoopTerminates_NonZero ==
    [][\A t \in Tasks :
          (/\ check_live_streams
           /\ RetryingWithoutProgress(t)
           /\ duration[sid[t]] # 0
           /\ now >= started_at[sid[t]] + duration[sid[t]] + GraceSecs)
          => status'[sid[t]] # "live"]_vars

\* C39: no stream goes live before its start time: a row whose started_at
\* is set has started_at >= start_time.
C39_NotBeforeStart ==
    \A s \in Streams : started_at[s] # NULL => started_at[s] >= start_time[s]

\* a stream created for a later time went live at the very second of its
\* start time
C39_Witness ==
    \E s \in Streams :
        /\ start_time[s] > 0
        /\ started_at[s] = start_time[s]
        /\ status[s] = "live"
====
